---- MODULE Spec2Model ----
(***************************************************************************)
(* Element resolution of dendrite/async_api/_core/mixin/get_element.py:    *)
(* get_element / get_elements -> _get_element -> test_if_cache_available,  *)
(* attempt_with_backoff (cache tier, then agent tier) ->                   *)
(* get_elements_from_selectors.                                            *)
(*                                                                         *)
(* One coroutine is modelled, one action per code segment between two      *)
(* suspension points (await) or control-flow joins; pc is the position.    *)
(* Time is the reading of time.time() in ticks of 50 ms, counted from the  *)
(* entry of the current call.  The remote services and the page driver are *)
(* the environment: their answers and durations are chosen with \E.        *)
(* The clock advances in the service round trips (snapshot + request, cache *)
(* probe) and in asyncio.sleep, which lasts exactly its argument; the page  *)
(* driver's selector queries take no time on this clock.                    *)
(***************************************************************************)
EXTENDS Integers, Sequences, FiniteSets, TLC

\* ---------------------------------------------------------------- bounds
MaxRequestDuration == 4   \* a short service round trip, in ticks (0.2 s)
MaxSelectors == 3         \* longest candidate list of a list-shaped answer
MaxFieldSelectors == 2    \* longest candidate list of one dict field
MaxMatches == 2           \* most live elements one selector matches

\* ------------------------------------------------------------ time scale
MsToTicks(ms) == ms \div 50

\* A round trip that outlasts every interval of the schedule and every budget.
LongDuration == MsToTicks(16000)

\* How long a service round trip may take: no time, a short time (more than
\* the first interval of 0.15 s, less than the others), or longer than the
\* whole schedule.
Durations == {0, MaxRequestDuration, LongDuration}

\* timeout arguments (milliseconds) the callers pass; 15000 is the default
TimeoutsMs == {300, 15000}

\* --------------------------------------------------------- program constants
CACHE_TIMEOUT == MsToTicks(5000)

\* a flat schedule of seven attempts
TIMEOUT_INTERVAL_Flat ==
    << MsToTicks(150), MsToTicks(150), MsToTicks(150), MsToTicks(150),
       MsToTicks(150), MsToTicks(150), MsToTicks(150) >>

\* line 268: TIMEOUT_INTERVAL = [0.15, 0.45, 1.0, 2.0, 4.0, 8.0], in ticks
TIMEOUT_INTERVAL ==
    << MsToTicks(150), MsToTicks(450), MsToTicks(1000),
       MsToTicks(2000), MsToTicks(4000), MsToTicks(8000) >>

\* ------------------------------------------------------------------ data
\* Selector strings are opaque to the code (never compared, only passed to
\* the page driver), so a candidate list of length k is taken to be the first
\* k of these names.
Selectors == <<"#a", "#b", "#c", "#d", "#e">>
NameSelectors == <<"#n1", "#n2", "#n3", "#n4">>
EmailSelectors == <<"#e1", "#e2">>
Keys == <<"name", "email">>

Prefixes(names, n) == {SubSeq(names, 1, k) : k \in 0 .. n}

Max(a, b) == IF a >= b THEN a ELSE b

\* Values a call can produce.  els: a flat list; fields: (key, element) pairs
\* of an AsyncElementsResponse in insertion order.
None == [kind |-> "none", els |-> <<>>, fields |-> <<>>]
OneElement(e) == [kind |-> "element", els |-> <<e>>, fields |-> <<>>]
ElementList(es) == [kind |-> "list", els |-> es, fields |-> <<>>]
ElementsResponse(fs) == [kind |-> "dict", els |-> <<>>, fields |-> fs]

\* Truth value of the two SDK classes, whose source is not part of src/.
\* An element handle counts as an outcome; a named-field collection counts as
\* one when it holds at least one field (spec 4.2 step 5: "non-empty outcome").
ObjectTruthy(v) ==
    IF v.kind = "element" THEN TRUE ELSE Len(v.fields) > 0

\* `if response is not None:` in the place of `if response:`
TruthyIsNotNone(v) == v.kind # "none"

\* `if res:` / `if response:` -- Python truth value of the returned value
Truthy(v) ==
    CASE v.kind = "none" -> FALSE
      [] v.kind = "list" -> Len(v.els) > 0
      [] OTHER -> ObjectTruthy(v)

\* GetElementResponse: status, and selectors as a list, a dict or absent
NoSelectors(st) ==
    [status |-> st, shape |-> "none", selectors |-> <<>>, fields |-> <<>>]
ListSelectors(sels) ==
    [status |-> "success", shape |-> "list", selectors |-> sels, fields |-> <<>>]
DictSelectors(fs) ==
    [status |-> "success", shape |-> "dict", selectors |-> <<>>, fields |-> fs]

DictShapes ==
    {<<>>}
    \cup {<<[key |-> Keys[1], selectors |-> l]>> :
            l \in Prefixes(NameSelectors, MaxFieldSelectors)}
    \cup {<<[key |-> Keys[1], selectors |-> l], [key |-> Keys[2], selectors |-> m]>> :
            l \in Prefixes(NameSelectors, MaxFieldSelectors),
            m \in Prefixes(EmailSelectors, 1)}

\* What get_interactions_selector may answer to a prompt of the given kind
Responses(kind) ==
    {NoSelectors("failure"), NoSelectors("impossible"), NoSelectors("success")}
    \cup (IF kind = "str"
          THEN {ListSelectors(l) : l \in Prefixes(Selectors, MaxSelectors)}
          ELSE {DictSelectors(d) : d \in DictShapes})

NoDto == [include_screenshot |-> FALSE, use_cache |-> FALSE,
          only_one |-> FALSE, force_use_cache |-> FALSE]

VARIABLES
    pc,                  \* position of the coroutine
    now,                 \* time.time(), ticks since the call was entered
    \* arguments of _get_element
    prompt_kind, only_one, use_cache, timeout,
    \* locals of _get_element
    start_time, cache_available, res,
    \* arguments and locals of attempt_with_backoff
    only_use_cache, remaining_timeout, total_elapsed_time, loop_start_time,
    idx, request_start_time, request_duration, dto, api_res, response, loop_res,
    \* locals of get_elements_from_selectors
    key_pos, sel_pos, result, dendrite_elements, queries,
    \* what the caller gets: a value, or the exception raised by `exc`
    ret, exc,
    \* observation of the run
    probes, nreq, impossible_seen, cache_tier_ran, prev_cache_hit,
    \* the frame of a second, suspended call of _get_element on the same page
    \* (NoPeer when there is one call at a time)
    peer

argVars == <<prompt_kind, only_one, use_cache, timeout>>
orchVars == <<start_time, cache_available, res>>
loopArgs == <<only_use_cache, remaining_timeout, loop_start_time>>
loopLocals == <<total_elapsed_time, idx, request_start_time, request_duration,
                dto, api_res, response>>
loopVars == <<loopArgs, loopLocals, loop_res>>
asmVars == <<key_pos, sel_pos, result, dendrite_elements, queries>>
outVars == <<ret, exc>>
obsVars == <<probes, nreq, impossible_seen, cache_tier_ran, prev_cache_hit>>
selfVars == <<pc, now, argVars, orchVars, loopVars, asmVars, outVars, obsVars>>
vars == <<selfVars, peer>>

\* fresh locals of attempt_with_backoff (268-270) and of the assembler
FreshLoopLocals ==
    /\ total_elapsed_time' = 0 /\ idx' = 1
    /\ request_start_time' = 0 /\ request_duration' = 0 /\ dto' = NoDto
    /\ api_res' = NoSelectors("failure") /\ response' = None

FreshAssembler ==
    /\ key_pos' = 1 /\ sel_pos' = 1 /\ result' = <<>>
    /\ dendrite_elements' = <<>> /\ queries' = <<>>

\* a call that has not been entered yet
InitFrame ==
    /\ pc = "idle"
    /\ now = 0
    /\ prompt_kind = "str" /\ only_one = FALSE /\ use_cache = FALSE /\ timeout = 0
    /\ start_time = 0 /\ cache_available = FALSE /\ res = None
    /\ only_use_cache = FALSE /\ remaining_timeout = 0 /\ loop_start_time = 0
    /\ total_elapsed_time = 0 /\ idx = 1
    /\ request_start_time = 0 /\ request_duration = 0 /\ dto = NoDto
    /\ api_res = NoSelectors("failure") /\ response = None /\ loop_res = None
    /\ key_pos = 1 /\ sel_pos = 1 /\ result = <<>>
    /\ dendrite_elements = <<>> /\ queries = <<>>
    /\ ret = None /\ exc = "none"
    /\ probes = 0 /\ nreq = [cache |-> 0, agent |-> 0]
    /\ impossible_seen = FALSE /\ cache_tier_ran = FALSE /\ prev_cache_hit = FALSE

\* no second call
NoPeer == [pc |-> "absent"]

Init == InitFrame /\ peer = NoPeer

\* --------------------------------------------------- entry points (94-125)
\* Body of _get_element up to its first await: lines 201-205.  The clock is
\* read relative to this entry, so start_time = time.time() is 0.  A new call
\* may follow a call that returned or raised.
GetElementEntry(kind, one, uc, seconds) ==
    /\ pc \in {"idle", "returned", "raised"}
    /\ prompt_kind' = kind /\ only_one' = one /\ use_cache' = uc
    /\ timeout' = seconds
    /\ now' = 0 /\ start_time' = 0
    /\ cache_available' = FALSE /\ res' = None
    /\ only_use_cache' = FALSE /\ remaining_timeout' = 0 /\ loop_start_time' = 0
    /\ FreshLoopLocals /\ loop_res' = None
    /\ FreshAssembler
    /\ ret' = None /\ exc' = "none"
    /\ probes' = 0 /\ nreq' = [cache |-> 0, agent |-> 0]
    /\ impossible_seen' = FALSE /\ cache_tier_ran' = FALSE
    /\ prev_cache_hit' = (pc = "returned" /\ only_use_cache)
    /\ pc' = "probe"
    /\ UNCHANGED peer

\* get_element(prompt, use_cache, timeout): only_one=True, timeout / 1000
get_element ==
    \E uc \in BOOLEAN, ms \in TimeoutsMs :
        GetElementEntry("str", TRUE, uc, MsToTicks(ms))

\* get_elements(prompt_or_elements, use_cache, timeout): only_one=False
get_elements ==
    \E kind \in {"str", "dict"}, uc \in BOOLEAN, ms \in TimeoutsMs :
        GetElementEntry(kind, FALSE, uc, MsToTicks(ms))

\* ------------------------------------------------ cache probe (205, 246-257)
\* The awaits of test_if_cache_available, called whatever use_cache is; a
\* failing round trip raises, and nothing between here and the caller
\* catches it.
test_if_cache_available ==
    /\ pc = "probe"
    /\ \E d \in Durations, out \in {"exists", "missing", "error"} :
        /\ now' = now + d
        /\ IF out = "error"
           THEN /\ pc' = "raised" /\ exc' = "test_if_cache_available"
                /\ UNCHANGED cache_available
           ELSE /\ pc' = "check_cache" /\ cache_available' = (out = "exists")
                /\ UNCHANGED exc
    /\ probes' = probes + 1
    /\ UNCHANGED <<peer, argVars, start_time, res, loopVars, asmVars, ret,
                   nreq, impossible_seen, cache_tier_ran, prev_cache_hit>>

\* ------------------------------------------- attempt_with_backoff (260-312)
\* lines 268-270: a new run of the loop
StartLoop(cache_only, budget) ==
    /\ only_use_cache' = cache_only
    /\ remaining_timeout' = budget
    /\ loop_start_time' = now
    /\ FreshLoopLocals /\ loop_res' = None
    /\ pc' = "loop_top"

\* the caller's timeout handed on without the deduction
RemainingTimeoutFull == timeout

\* the deduction counted from the start of the loop that just ended
RemainingTimeoutSinceLoop == timeout - (now - loop_start_time)

\* line 234: remaining_timeout=timeout - (time.time() - start_time)
RemainingTimeout == timeout - (now - start_time)

\* lines 208-217: the cache tier
CacheAttempt ==
    /\ pc = "check_cache"
    /\ cache_available /\ use_cache = TRUE
    /\ StartLoop(TRUE, CACHE_TIMEOUT)
    /\ cache_tier_ran' = TRUE
    /\ UNCHANGED <<now, peer, argVars, orchVars, asmVars, outVars,
                   probes, nreq, impossible_seen, prev_cache_hit>>

\* lines 208, 229-236: no cache tier, straight to the find element agent
DiscoverAfterProbe ==
    /\ pc = "check_cache"
    /\ ~(cache_available /\ use_cache = TRUE)
    /\ StartLoop(FALSE, RemainingTimeout)
    /\ UNCHANGED <<now, peer, argVars, orchVars, asmVars, outVars, obsVars>>

\* the budget check with a strict comparison
BudgetSpentStrict == total_elapsed_time > remaining_timeout

\* line 273: if total_elapsed_time >= remaining_timeout
BudgetSpent == total_elapsed_time >= remaining_timeout

\* the loop returns `value`: its locals die, its arguments stay readable
LoopReturn(value) ==
    /\ loop_res' = value
    /\ pc' = "loop_ret"
    /\ FreshLoopLocals
    /\ UNCHANGED loopArgs

\* lines 272-275: budget check at the head of an iteration
LoopTimeout ==
    /\ pc = "loop_top"
    /\ idx <= Len(TIMEOUT_INTERVAL)
    /\ BudgetSpent
    /\ LoopReturn(None)
    /\ UNCHANGED <<now, peer, argVars, orchVars, asmVars, outVars, obsVars>>

\* a used-up schedule reported to the caller as an exception
LoopExhaustedRaises ==
    /\ pc = "loop_top"
    /\ idx > Len(TIMEOUT_INTERVAL)
    /\ pc' = "raised"
    /\ exc' = "TimeoutError"
    /\ UNCHANGED <<now, peer, argVars, orchVars, loopVars, asmVars, ret, obsVars>>

\* lines 272, 311-312: the schedule is used up
LoopExhausted ==
    /\ pc = "loop_top"
    /\ idx > Len(TIMEOUT_INTERVAL)
    /\ LoopReturn(None)
    /\ UNCHANGED <<now, peer, argVars, orchVars, asmVars, outVars, obsVars>>

Tier == IF only_use_cache THEN "cache" ELSE "agent"

\* a request that carries a screenshot on both tiers
MakeDtoWithScreenshot ==
    [include_screenshot |-> TRUE, use_cache |-> only_use_cache,
     only_one |-> only_one, force_use_cache |-> only_use_cache]

\* lines 279-289: include_screenshot and the GetElementsDTO flags
MakeDto ==
    [include_screenshot |-> ~only_use_cache, use_cache |-> only_use_cache,
     only_one |-> only_one, force_use_cache |-> only_use_cache]

\* lines 277-291: snapshot, request, response; d is the time the awaits take
Attempt ==
    /\ pc = "loop_top"
    /\ idx <= Len(TIMEOUT_INTERVAL)
    /\ ~BudgetSpent
    /\ request_start_time' = now
    /\ dto' = MakeDto
    /\ nreq' = [nreq EXCEPT ![Tier] = @ + 1]
    /\ \E d \in Durations, r \in Responses(prompt_kind) :
        /\ now' = now + d
        /\ request_duration' = now' - request_start_time'
        /\ api_res' = r
        /\ impossible_seen' = (impossible_seen \/ r.status = "impossible")
    /\ pc' = "got_response"
    /\ UNCHANGED <<peer, argVars, orchVars, loopArgs, total_elapsed_time, idx,
                   response, loop_res, asmVars, outVars,
                   probes, cache_tier_ran, prev_cache_hit>>

\* line 290: the request raises (a network error); nothing catches it
AttemptRaises ==
    /\ pc = "loop_top"
    /\ idx <= Len(TIMEOUT_INTERVAL)
    /\ ~BudgetSpent
    /\ request_start_time' = now
    /\ dto' = MakeDto
    /\ nreq' = [nreq EXCEPT ![Tier] = @ + 1]
    /\ \E d \in Durations : now' = now + d
    /\ pc' = "raised" /\ exc' = "get_interactions_selector"
    /\ UNCHANGED <<peer, argVars, orchVars, loopArgs, total_elapsed_time, idx,
                   request_duration, api_res, response, loop_res, asmVars, ret,
                   probes, impossible_seen, cache_tier_ran, prev_cache_hit>>

\* an 'impossible' answer treated like a failure: sleep and try again
ImpossibleRetried ==
    /\ pc = "got_response"
    /\ api_res.status = "impossible"
    /\ pc' = "backoff"
    /\ UNCHANGED <<now, peer, argVars, orchVars, loopVars, asmVars, outVars, obsVars>>

\* lines 293-297
ImpossibleResponse ==
    /\ pc = "got_response"
    /\ api_res.status = "impossible"
    /\ LoopReturn(None)
    /\ UNCHANGED <<now, peer, argVars, orchVars, asmVars, outVars, obsVars>>

\* lines 299-300, 318-329: enter get_elements_from_selectors
SuccessResponse ==
    /\ pc = "got_response"
    /\ api_res.status = "success"
    /\ key_pos' = 1
    /\ sel_pos' = 1
    /\ result' = <<>>
    /\ dendrite_elements' = <<>> /\ queries' = <<>>
    /\ pc' = "assemble"
    /\ UNCHANGED <<now, peer, argVars, orchVars, loopVars, outVars, obsVars>>

\* lines 293, 299 both false: straight to the sleep
FailureResponse ==
    /\ pc = "got_response"
    /\ api_res.status \notin {"impossible", "success"}
    /\ pc' = "backoff"
    /\ UNCHANGED <<now, peer, argVars, orchVars, loopVars, asmVars, outVars, obsVars>>

\* ------------------------------------ get_elements_from_selectors (315-336)
\* the assembler returns `value` to line 300; what it queried stays readable
\* until line 301 has looked at the value
AssemblerReturn(value) ==
    /\ response' = value
    /\ pc' = "assembled"
    /\ key_pos' = 1 /\ sel_pos' = 1 /\ result' = <<>>

\* The attempt in progress (or the last one made): tier and request number.
AttemptId == [tier |-> Tier, n |-> nreq[Tier]]

\* a page driver that hands out the handles it created at the first attempt
ElementMemoised(sel, i) ==
    [selector |-> sel, index |-> i, attempt |-> [tier |-> Tier, n |-> 1]]

\* An element handle the page driver returns: the i-th live match of a
\* selector.  Every query creates new handles, so a handle is told apart by
\* the attempt whose query created it.
Element(sel, i) == [selector |-> sel, index |-> i, attempt |-> AttemptId]

\* page._get_all_elements_from_selector(sel) when n elements match
AllElements(sel, n) == [i \in 1 .. n |-> Element(sel, i)]

\* lines 323, 331: page._get_all_elements_from_selector(selector) finds n
\* live elements
Query(selector, n) ==
    /\ dendrite_elements' = AllElements(selector, n)
    /\ queries' = Append(queries, [selector |-> selector, found |-> n > 0])

\* line 334: return dendrite_elements[0] if only_one else dendrite_elements
ListOutcome(elements) ==
    IF only_one THEN OneElement(elements[1]) ELSE ElementList(elements)

\* a list read backwards, with the elements a plain `for` would visit instead
Unreversed(selectors) == selectors

\* line 329: reversed(res.selectors)
Reversed(selectors) ==
    [i \in 1 .. Len(selectors) |-> selectors[Len(selectors) + 1 - i]]

\* lines 329-334: one iteration over reversed(res.selectors)
ListQuery ==
    /\ pc = "assemble"
    /\ api_res.shape = "list"
    /\ sel_pos <= Len(api_res.selectors)
    /\ \E n \in 0 .. MaxMatches :
          /\ Query(Reversed(api_res.selectors)[sel_pos], n)
          /\ IF Len(dendrite_elements') > 0
             THEN AssemblerReturn(ListOutcome(dendrite_elements'))
             ELSE /\ sel_pos' = sel_pos + 1
                  /\ UNCHANGED <<pc, response, key_pos, result>>
    /\ UNCHANGED <<now, peer, argVars, orchVars, loopArgs, total_elapsed_time, idx,
                   request_start_time, request_duration, dto, api_res, loop_res,
                   outVars, obsVars>>

\* lines 329, 336: the reversed list is used up (or selectors is neither a
\* dict nor a list): return None
NoSelectorMatched ==
    /\ pc = "assemble"
    /\ \/ api_res.shape = "list" /\ sel_pos > Len(api_res.selectors)
       \/ api_res.shape = "none"
    /\ AssemblerReturn(None)
    /\ UNCHANGED <<now, peer, argVars, orchVars, loopArgs, total_elapsed_time, idx,
                   request_start_time, request_duration, dto, api_res, loop_res,
                   dendrite_elements, queries, outVars, obsVars>>

\* a dict branch that keeps the last live match of a selector
FieldElementLast(elements) == elements[Len(elements)]

\* line 325: result[key] = dendrite_elements[0]
FieldElement(elements) == elements[1]

\* lines 321-326: one iteration of the inner loop of the dict branch
DictQuery ==
    /\ pc = "assemble"
    /\ api_res.shape = "dict"
    /\ key_pos <= Len(api_res.fields)
    /\ sel_pos <= Len(api_res.fields[key_pos].selectors)
    /\ \E n \in 0 .. MaxMatches :
          /\ Query(api_res.fields[key_pos].selectors[sel_pos], n)
          /\ IF Len(dendrite_elements') > 0
             THEN /\ result' = Append(result, [key |-> api_res.fields[key_pos].key,
                                               el |-> FieldElement(dendrite_elements')])
                  /\ key_pos' = key_pos + 1
                  /\ sel_pos' = 1
             ELSE /\ sel_pos' = sel_pos + 1
                  /\ UNCHANGED <<key_pos, result>>
    /\ UNCHANGED <<pc, now, peer, argVars, orchVars, loopVars, outVars, obsVars>>

\* lines 320-321: a field's selectors are used up, go to the next key
DictNextKey ==
    /\ pc = "assemble"
    /\ api_res.shape = "dict"
    /\ key_pos <= Len(api_res.fields)
    /\ sel_pos > Len(api_res.fields[key_pos].selectors)
    /\ key_pos' = key_pos + 1
    /\ sel_pos' = 1
    /\ UNCHANGED <<pc, now, peer, argVars, orchVars, loopVars, result,
                   dendrite_elements, queries, outVars, obsVars>>

\* line 327: return AsyncElementsResponse(result)
DictReturn ==
    /\ pc = "assemble"
    /\ api_res.shape = "dict"
    /\ key_pos > Len(api_res.fields)
    /\ AssemblerReturn(ElementsResponse(result))
    /\ UNCHANGED <<now, peer, argVars, orchVars, loopArgs, total_elapsed_time, idx,
                   request_start_time, request_duration, dto, api_res, loop_res,
                   dendrite_elements, queries, outVars, obsVars>>

\* ------------------------------------ attempt_with_backoff, continued
\* lines 301-302: if response: return response
ReturnResponse ==
    /\ pc = "assembled"
    /\ Truthy(response)
    /\ LoopReturn(response)
    /\ FreshAssembler
    /\ UNCHANGED <<now, peer, argVars, orchVars, outVars, obsVars>>

\* line 301 false: the selectors are stale, go on to the sleep
StaleResponse ==
    /\ pc = "assembled"
    /\ ~Truthy(response)
    /\ pc' = "backoff"
    /\ FreshAssembler
    /\ UNCHANGED <<now, peer, argVars, orchVars, loopVars, outVars, obsVars>>

\* the operands of the subtraction swapped
SleepDurationSwapped(current_timeout, duration) == Max(0, duration - current_timeout)

\* the sleep computed without the clamp at zero
SleepDurationUnclamped(current_timeout, duration) == current_timeout - duration

\* no sleep after the last scheduled attempt
SleepDurationNotLast(current_timeout, duration) ==
    IF current_timeout = TIMEOUT_INTERVAL[Len(TIMEOUT_INTERVAL)]
    THEN 0
    ELSE Max(0, current_timeout - duration)

\* line 304: sleep_duration = max(0, current_timeout - request_duration)
SleepDuration(current_timeout, duration) == Max(0, current_timeout - duration)

\* lines 304-309: asyncio.sleep, then total_elapsed_time = time.time() - start_time
Backoff ==
    /\ pc = "backoff"
    /\ LET sleep_duration == SleepDuration(TIMEOUT_INTERVAL[idx], request_duration) IN
       now' = now + sleep_duration
    /\ total_elapsed_time' = now' - loop_start_time
    /\ idx' = idx + 1
    /\ pc' = "loop_top"
    /\ UNCHANGED <<peer, argVars, orchVars, loopArgs, request_start_time,
                   request_duration, dto, api_res, response, loop_res, asmVars,
                   outVars, obsVars>>

\* ------------------------------------------- _get_element, continued
\* lines 210, 218-219: the cache tier produced something: return it
CacheHit ==
    /\ pc = "loop_ret"
    /\ only_use_cache
    /\ res' = loop_res
    /\ Truthy(res')
    /\ ret' = res'
    /\ pc' = "returned"
    /\ UNCHANGED <<now, peer, argVars, start_time, cache_available, loopVars, asmVars,
                   exc, obsVars>>

\* the agent tier entered whatever the cache tier produced
DiscoverAfterCacheAlways ==
    /\ pc = "loop_ret"
    /\ only_use_cache
    /\ res' = loop_res
    /\ StartLoop(FALSE, RemainingTimeout)
    /\ UNCHANGED <<now, peer, argVars, start_time, cache_available, asmVars, outVars,
                   obsVars>>

\* lines 210, 218-236: the cache tier produced nothing: the find element agent
DiscoverAfterCache ==
    /\ pc = "loop_ret"
    /\ only_use_cache
    /\ res' = loop_res
    /\ ~Truthy(res')
    /\ StartLoop(FALSE, RemainingTimeout)
    /\ UNCHANGED <<now, peer, argVars, start_time, cache_available, asmVars, outVars,
                   obsVars>>

\* lines 229-243: the agent tier's result is the call's result
AgentDone ==
    /\ pc = "loop_ret"
    /\ ~only_use_cache
    /\ res' = loop_res
    /\ ret' = IF Truthy(res') THEN res' ELSE None
    /\ pc' = "returned"
    /\ UNCHANGED <<now, peer, argVars, start_time, cache_available, loopVars, asmVars,
                   exc, obsVars>>

Next ==
    \/ get_element
    \/ get_elements
    \/ test_if_cache_available
    \/ CacheAttempt
    \/ DiscoverAfterProbe
    \/ LoopTimeout
    \/ LoopExhausted
    \/ Attempt
    \/ AttemptRaises
    \/ ImpossibleResponse
    \/ SuccessResponse
    \/ FailureResponse
    \/ ListQuery
    \/ NoSelectorMatched
    \/ DictQuery
    \/ DictNextKey
    \/ DictReturn
    \/ ReturnResponse
    \/ StaleResponse
    \/ Backoff
    \/ CacheHit
    \/ DiscoverAfterCache
    \/ AgentDone

Spec == Init /\ [][Next]_vars

\* --------------------------------------- two calls on the same page
\* Every name the two functions assign is a local of a coroutine (201-202,
\* 268-270) and the module's only global, CACHE_TIMEOUT, is never assigned:
\* a call is its frame.  The variables above are the frame of the call that
\* is running, `peer` the frame of the call that is suspended.  `now` is the
\* reading of time.time() the call made last, counted from its own entry.
Self ==
    [pc |-> pc, now |-> now, prompt_kind |-> prompt_kind,
     only_one |-> only_one, use_cache |-> use_cache, timeout |-> timeout,
     start_time |-> start_time, cache_available |-> cache_available,
     res |-> res, only_use_cache |-> only_use_cache,
     remaining_timeout |-> remaining_timeout,
     total_elapsed_time |-> total_elapsed_time,
     loop_start_time |-> loop_start_time, idx |-> idx,
     request_start_time |-> request_start_time,
     request_duration |-> request_duration, dto |-> dto, api_res |-> api_res,
     response |-> response, loop_res |-> loop_res, key_pos |-> key_pos,
     sel_pos |-> sel_pos, result |-> result,
     dendrite_elements |-> dendrite_elements, queries |-> queries,
     ret |-> ret, exc |-> exc, probes |-> probes, nreq |-> nreq,
     impossible_seen |-> impossible_seen, cache_tier_ran |-> cache_tier_ran,
     prev_cache_hit |-> prev_cache_hit]

\* positions at which a call is suspended in an await: the probe (205), the
\* snapshot and the request (277-290), the page queries (323, 331), the
\* sleep (308); or not running at all
SuspensionPoints ==
    {"idle", "probe", "loop_top", "assemble", "backoff", "returned", "raised"}

\* a total_elapsed_time kept in one place for both calls
SwitchSharedElapsed ==
    /\ peer.pc # "absent"
    /\ pc \in SuspensionPoints
    /\ peer' = Self
    /\ pc' = peer.pc /\ now' = peer.now /\ prompt_kind' = peer.prompt_kind
    /\ only_one' = peer.only_one /\ use_cache' = peer.use_cache
    /\ timeout' = peer.timeout /\ start_time' = peer.start_time
    /\ cache_available' = peer.cache_available /\ res' = peer.res
    /\ only_use_cache' = peer.only_use_cache
    /\ remaining_timeout' = peer.remaining_timeout
    /\ loop_start_time' = peer.loop_start_time /\ idx' = peer.idx
    /\ request_start_time' = peer.request_start_time
    /\ request_duration' = peer.request_duration /\ dto' = peer.dto
    /\ api_res' = peer.api_res /\ response' = peer.response
    /\ loop_res' = peer.loop_res /\ key_pos' = peer.key_pos
    /\ sel_pos' = peer.sel_pos /\ result' = peer.result
    /\ dendrite_elements' = peer.dendrite_elements /\ queries' = peer.queries
    /\ ret' = peer.ret /\ exc' = peer.exc /\ probes' = peer.probes
    /\ nreq' = peer.nreq /\ impossible_seen' = peer.impossible_seen
    /\ cache_tier_ran' = peer.cache_tier_ran
    /\ prev_cache_hit' = peer.prev_cache_hit
    /\ UNCHANGED total_elapsed_time

\* the event loop suspends the running call at an await and resumes the other
Switch ==
    /\ peer.pc # "absent"
    /\ pc \in SuspensionPoints
    /\ peer' = Self
    /\ pc' = peer.pc /\ now' = peer.now /\ prompt_kind' = peer.prompt_kind
    /\ only_one' = peer.only_one /\ use_cache' = peer.use_cache
    /\ timeout' = peer.timeout /\ start_time' = peer.start_time
    /\ cache_available' = peer.cache_available /\ res' = peer.res
    /\ only_use_cache' = peer.only_use_cache
    /\ remaining_timeout' = peer.remaining_timeout
    /\ total_elapsed_time' = peer.total_elapsed_time
    /\ loop_start_time' = peer.loop_start_time /\ idx' = peer.idx
    /\ request_start_time' = peer.request_start_time
    /\ request_duration' = peer.request_duration /\ dto' = peer.dto
    /\ api_res' = peer.api_res /\ response' = peer.response
    /\ loop_res' = peer.loop_res /\ key_pos' = peer.key_pos
    /\ sel_pos' = peer.sel_pos /\ result' = peer.result
    /\ dendrite_elements' = peer.dendrite_elements /\ queries' = peer.queries
    /\ ret' = peer.ret /\ exc' = peer.exc /\ probes' = peer.probes
    /\ nreq' = peer.nreq /\ impossible_seen' = peer.impossible_seen
    /\ cache_tier_ran' = peer.cache_tier_ran
    /\ prev_cache_hit' = peer.prev_cache_hit

\* Side by side, the calls are get_element calls with the 0.3 s timeout, the
\* round trips take 0 or MaxRequestDuration ticks, and the answer to a
\* request is a failure, 'impossible' or the one selector #a with at most one
\* live match.
ConcResponses ==
    {NoSelectors("failure"), NoSelectors("impossible"), ListSelectors(<<"#a">>)}

ConcEntry == get_element /\ timeout' = MsToTicks(300)

ConcProbe == test_if_cache_available /\ now' - now <= MaxRequestDuration

ConcAttempt ==
    Attempt /\ now' - now <= MaxRequestDuration /\ api_res' \in ConcResponses

ConcListQuery == ListQuery /\ Len(dendrite_elements') <= 1

ConcInit == InitFrame /\ peer = Self

ConcNext ==
    \/ ConcEntry
    \/ ConcProbe
    \/ CacheAttempt
    \/ DiscoverAfterProbe
    \/ LoopTimeout
    \/ ConcAttempt
    \/ ImpossibleResponse
    \/ SuccessResponse
    \/ FailureResponse
    \/ ConcListQuery
    \/ NoSelectorMatched
    \/ ReturnResponse
    \/ StaleResponse
    \/ Backoff
    \/ CacheHit
    \/ DiscoverAfterCache
    \/ AgentDone
    \/ Switch

ConcSpec == ConcInit /\ [][ConcNext]_vars

\* ---------------------------------------------------------------- claims
\* positions inside a run of attempt_with_backoff
LoopPcs == {"loop_top", "got_response", "assemble", "assembled", "backoff", "loop_ret"}

\* a step that issues a resolution request (get_interactions_selector)
RequestIssued == nreq'.cache + nreq'.agent > nreq.cache + nreq.agent

\* C1: within one call, once a response had status 'impossible' no further
\* resolution request is issued on either tier, and the call returns not-found.
C1_ImpossibleStopsTheCall ==
    /\ [][impossible_seen => ~RequestIssued]_vars
    /\ []((impossible_seen /\ pc = "returned") => ret = None)

\* C2: inside one run of the loop an 'impossible' response ends the run at once
\* with not-found: no sleep, no assembler call, no further request.
C2_ImpossibleEndsLoop ==
    [][(pc = "got_response" /\ api_res.status = "impossible")
        => /\ pc' = "loop_ret"
           /\ loop_res' = None
           /\ now' = now
           /\ nreq' = nreq
           /\ queries' = queries]_vars

\* an agent-tier run (no cache tier before it) that its third request's
\* 'impossible' answer ended while budget was left
C2_Witness ==
    /\ pc = "loop_ret"
    /\ ~cache_tier_ran
    /\ impossible_seen
    /\ nreq.agent = 3
    /\ loop_res = None
    /\ now - loop_start_time < remaining_timeout

\* no query of the current assembler run found a live element
NoLiveMatch == \A i \in 1 .. Len(queries) : ~queries[i].found

C4_TimeoutBoundsEveryRequest ==
    [][(use_cache /\ RequestIssued) => now - start_time < timeout]_vars

\* C5: with use_cache=False the cache probe is not called and no cache-tier
\* request is issued.
C5_NoProbeWithoutCache ==
    ~use_cache => (probes = 0 /\ nreq.cache = 0)

\* inside the agent tier of a call that never entered the cache tier
InAgentWithoutCache ==
    /\ pc \in LoopPcs
    /\ ~only_use_cache
    /\ ~cache_tier_ran

\* C6 as claimed: when the cache tier is not entered, the agent tier's budget
\* is the full timeout.
C6_FullBudget ==
    InAgentWithoutCache => remaining_timeout = timeout

\* C6 as amended: when the cache tier is not entered, the agent tier's budget
\* is the timeout less the time between entry and the start of the loop (the
\* cache probe's duration), hence never more than the timeout.
C6_BudgetLessElapsed ==
    InAgentWithoutCache =>
        /\ remaining_timeout = timeout - (loop_start_time - start_time)
        /\ remaining_timeout <= timeout

\* the probe said "no cache" after some time, and the agent tier, at its first
\* request, has less than the timeout
C6_Witness ==
    /\ InAgentWithoutCache
    /\ use_cache /\ ~cache_available
    /\ pc = "got_response" /\ nreq.agent = 1
    /\ 0 < remaining_timeout /\ remaining_timeout < timeout

\* C7: a failure of the cache probe never reaches the caller as an error.
C7_ProbeFailureIsCacheMiss ==
    ~(pc = "raised" /\ exc = "test_if_cache_available")

\* C8: a non-empty outcome of the cache tier is returned to the caller and no
\* agent-tier request is issued, in every call.
C8_CacheOutcomeReturned ==
    /\ [][(pc = "loop_ret" /\ only_use_cache /\ Truthy(loop_res))
           => (pc' = "returned" /\ ret' = loop_res /\ ~RequestIssued)]_vars
    /\ []((pc = "returned" /\ only_use_cache) => (Truthy(ret) /\ nreq.agent = 0))

\* the second of two consecutive calls that both returned a cache-tier outcome
C8_Witness ==
    /\ pc = "returned"
    /\ use_cache /\ only_use_cache
    /\ prev_cache_hit
    /\ Truthy(ret)
    /\ nreq.cache >= 1 /\ nreq.agent = 0

\* C9 as claimed: a run of the loop with a budget of 0.3 s issues at most one
\* request.
C9_AtMostOneRequest ==
    (pc \in LoopPcs /\ remaining_timeout = MsToTicks(300)) => nreq[Tier] <= 1

\* C9 as amended: a run of the loop with a budget of 0.3 s issues at most two
\* requests.
C9_AtMostTwoRequests ==
    (pc \in LoopPcs /\ remaining_timeout = MsToTicks(300)) => nreq[Tier] <= 2

\* a run with a budget of 0.3 s that ended on the budget check after its
\* second request
C9_Witness ==
    /\ pc = "loop_ret"
    /\ remaining_timeout = MsToTicks(300)
    /\ nreq[Tier] = 2
    /\ loop_res = None
    /\ ~impossible_seen

\* C10: for a list-shaped answer the assembler queries the selectors in
\* reverse list order, stops at the first one with a live match, and returns
\* its first element (only_one) or all its elements; None when none matches.
C10_ListAssembler ==
    (pc = "assembled" /\ api_res.shape = "list") =>
        LET sels == api_res.selectors
            n == Len(queries)
        IN  /\ n <= Len(sels)
            /\ \A i \in 1 .. n : queries[i].selector = sels[Len(sels) + 1 - i]
            /\ \A i \in 1 .. (n - 1) : ~queries[i].found
            /\ IF n > 0 /\ queries[n].found
               THEN /\ Len(dendrite_elements) > 0
                    /\ \A i \in 1 .. Len(dendrite_elements) :
                          dendrite_elements[i] = Element(queries[n].selector, i)
                    /\ response = IF only_one
                                  THEN OneElement(dendrite_elements[1])
                                  ELSE ElementList(dendrite_elements)
               ELSE n = Len(sels) /\ response = None

\* [#a, #b, #c] with only #a live: #c, #b, #a were queried and both elements
\* of #a are returned
C10_Witness ==
    /\ pc = "assembled"
    /\ api_res.selectors = <<"#a", "#b", "#c">>
    /\ queries = << [selector |-> "#c", found |-> FALSE],
                    [selector |-> "#b", found |-> FALSE],
                    [selector |-> "#a", found |-> TRUE] >>
    /\ ~only_one
    /\ response = ElementList(<<Element("#a", 1), Element("#a", 2)>>)

\* the queries of one assembler run that belong to the selectors of a field
QueriesOf(selectors) ==
    SelectSeq(queries, LAMBDA q : \E i \in 1 .. Len(selectors) : selectors[i] = q.selector)

\* C11: when get_elements_from_selectors has run on a dict-shaped response,
\* the queries follow the fields in order and, inside a field, its selectors
\* in listed order up to and including the first one with a live match; the
\* field is mapped to the first element of that selector, a field with no
\* matching selector is absent, and the value is always a named-field
\* collection.
C11_DictAssembler ==
    (pc = "assembled" /\ api_res.shape = "dict") =>
        LET fields == api_res.fields
            asked(k) == QueriesOf(fields[k].selectors)
            hit(k) == Len(asked(k)) > 0 /\ asked(k)[Len(asked(k))].found
            total[k \in 0 .. Len(fields)] ==
                IF k = 0 THEN 0 ELSE total[k - 1] + Len(asked(k))
            hits[k \in 0 .. Len(fields)] ==
                IF k = 0 THEN 0 ELSE hits[k - 1] + (IF hit(k) THEN 1 ELSE 0)
        IN  /\ response.kind = "dict"
            /\ Len(queries) = total[Len(fields)]
            /\ Len(response.fields) = hits[Len(fields)]
            /\ \A k \in 1 .. Len(fields) :
                  /\ asked(k) = SubSeq(queries, total[k - 1] + 1, total[k])
                  /\ Len(asked(k)) <= Len(fields[k].selectors)
                  /\ \A i \in 1 .. Len(asked(k)) :
                        /\ asked(k)[i].selector = fields[k].selectors[i]
                        /\ i < Len(asked(k)) => ~asked(k)[i].found
                  /\ IF hit(k)
                     THEN response.fields[hits[k]] =
                             [key |-> fields[k].key,
                              el |-> Element(asked(k)[Len(asked(k))].selector, 1)]
                     ELSE /\ Len(asked(k)) = Len(fields[k].selectors)
                          /\ \A j \in 1 .. Len(response.fields) :
                                response.fields[j].key # fields[k].key

\* {name: [#n1, #n2], email: [#e1]} with #n2 and #e1 live, two matches each
C11_Witness ==
    /\ pc = "assembled"
    /\ api_res.shape = "dict"
    /\ api_res.fields = << [key |-> "name", selectors |-> <<"#n1", "#n2">>],
                           [key |-> "email", selectors |-> <<"#e1">>] >>
    /\ queries = << [selector |-> "#n1", found |-> FALSE],
                    [selector |-> "#n2", found |-> TRUE],
                    [selector |-> "#e1", found |-> TRUE] >>
    /\ Len(dendrite_elements) = MaxMatches
    /\ response = ElementsResponse(<< [key |-> "name", el |-> Element("#n2", 1)],
                                      [key |-> "email", el |-> Element("#e1", 1)] >>)

\* C12: the sleep that follows an attempt which did not end the loop lasts
\* max(0, interval - request duration), where the interval is the schedule's
\* entry for this attempt and the request duration is the time since this
\* attempt's request_start_time; it is never negative, it is zero when the
\* request took at least the interval, and the next step is the next interval.
C12_SleepIsClampedDifference ==
    [][pc = "backoff"
        => LET interval == TIMEOUT_INTERVAL[idx]
               slept == now' - now
           IN  /\ request_duration = now - request_start_time
               /\ slept >= 0
               /\ slept = (IF request_duration >= interval
                           THEN 0 ELSE interval - request_duration)
               /\ pc' = "loop_top"
               /\ idx' = idx + 1]_vars

\* the first request outlasted the 0.15 s interval: the loop is at the second
\* interval and no time has passed since the response
C12_Witness ==
    /\ pc = "loop_top"
    /\ idx = 2
    /\ request_duration >= TIMEOUT_INTERVAL[1]
    /\ request_duration < LongDuration
    /\ now = request_start_time + request_duration

\* steps the Result Assembler may still take in a state with pc = "assemble"
AssemblerLeft ==
    CASE api_res.shape = "list" -> Len(api_res.selectors) + 1 - sel_pos
      [] api_res.shape = "dict" ->
            (Len(api_res.fields) + 1 - key_pos) * (Len(NameSelectors) + 2)
                - (sel_pos - 1)
      [] OTHER -> 0

\* steps one loop run may still take, at most
LoopRank ==
    22 * (Len(TIMEOUT_INTERVAL) + 1 - idx)
      + CASE pc = "loop_top" -> 21
          [] pc = "got_response" -> 20
          [] pc = "assemble" -> 3 + AssemblerLeft
          [] pc = "assembled" -> 2
          [] pc = "backoff" -> 1
          [] OTHER -> 0

\* a variant of one call of _get_element: an upper bound on the steps left
Rank ==
    CASE pc = "probe" -> 402
      [] pc = "check_cache" -> 401
      [] pc = "loop_ret" -> (IF only_use_cache THEN 200 ELSE 0) + 1
      [] pc \in LoopPcs -> (IF only_use_cache THEN 200 ELSE 0) + 2 + LoopRank
      [] OTHER -> 0

\* every step of a call in progress lowers the variant, which stays natural:
\* a call that keeps being scheduled ends after finitely many steps
CallTerminates ==
    [][pc \notin {"idle", "returned", "raised"} => (Rank' < Rank /\ Rank' >= 0)]_vars

\* the exceptions the collaborators can raise into _get_element
ServiceErrors == {"test_if_cache_available", "get_interactions_selector"}

\* C13: a call in which no tier produced a non-empty outcome ends (its
\* variant falls at every step) in the state "returned" with the value None
\* and no exception; an exception leaves _get_element only when a service
\* call raised, never because of a miss.
C13_MissReturnsNone ==
    /\ [](pc = "returned" /\ ~Truthy(res) => ret = None /\ exc = "none")
    /\ [](pc = "returned" /\ ret = None => ~Truthy(res) /\ ~Truthy(loop_res))
    /\ [](pc = "raised" <=> exc \in ServiceErrors)
    /\ [][pc = "loop_ret" /\ ~only_use_cache /\ ~Truthy(loop_res)
            => pc' = "returned" /\ ret' = None /\ exc' = "none"]_vars
    /\ CallTerminates

\* both tiers ran and missed: the cache tier spent its budget on failures and
\* stale selectors, the agent tier too, and the caller got None
C13_Witness ==
    /\ pc = "returned"
    /\ ret = None
    /\ exc = "none"
    /\ cache_tier_ran
    /\ ~impossible_seen
    /\ nreq.cache > 1
    /\ nreq.agent > 1

\* C14: at the head of every iteration the value compared with the budget is
\* the time elapsed since the loop started; a request is issued only from a
\* state where that time is below the budget; when it has reached the budget
\* the loop returns None with no snapshot and no request; a loop started with
\* a budget of zero or less issues no request.
C14_BudgetCheckedBeforeAttempt ==
    /\ [](pc = "loop_top" => total_elapsed_time = now - loop_start_time)
    /\ [][RequestIssued
            => pc = "loop_top" /\ now - loop_start_time < remaining_timeout]_vars
    /\ [][(/\ pc = "loop_top"
           /\ idx <= Len(TIMEOUT_INTERVAL)
           /\ now - loop_start_time >= remaining_timeout)
            => /\ pc' = "loop_ret"
               /\ loop_res' = None
               /\ now' = now
               /\ nreq' = nreq
               /\ exc' = exc]_vars
    /\ []((pc \in LoopPcs /\ remaining_timeout <= 0) => nreq[Tier] = 0)

\* the probe alone outlasted the caller's timeout: the agent loop started with
\* a negative budget and returned None without a request
C14_Witness ==
    /\ pc = "loop_ret"
    /\ ~only_use_cache
    /\ remaining_timeout < 0
    /\ loop_res = None
    /\ nreq.agent = 0
    /\ nreq.cache = 0

\* the schedule as the documentation gives it, in ticks
DocumentedSchedule ==
    <<MsToTicks(150), MsToTicks(450), MsToTicks(1000),
      MsToTicks(2000), MsToTicks(4000), MsToTicks(8000)>>

\* C15: one call makes at most one probe, at most six cache-tier and at most
\* six agent-tier requests, every cache-tier request before every agent-tier
\* request; the k-th request of a loop run is followed by a sleep computed
\* from the k-th entry of 0.15, 0.45, 1.0, 2.0, 4.0, 8.0 s; and the call
\* terminates (its variant falls at every step).
C15_AtMostSixRequestsPerTier ==
    /\ [](probes <= 1 /\ nreq.cache <= 6 /\ nreq.agent <= 6)
    /\ [](pc = "loop_top" => idx = nreq[Tier] + 1)
    /\ [](pc \in {"got_response", "assemble", "assembled", "backoff"}
             => idx = nreq[Tier])
    /\ [][pc = "backoff"
            => now' - now =
                  Max(0, DocumentedSchedule[nreq[Tier]] - request_duration)]_vars
    /\ [][nreq'.cache > nreq.cache => nreq.agent = 0 /\ probes = 1]_vars
    /\ [][nreq'.agent > nreq.agent => probes = 1]_vars
    /\ CallTerminates

\* a call that probed once, used the cache tier and then all six agent-tier
\* attempts
C15_Witness ==
    /\ pc = "returned"
    /\ probes = 1
    /\ nreq.cache >= 1
    /\ nreq.agent = 6

\* the agent tier of a call whose cache tier ran and produced nothing
InAgentAfterCache ==
    /\ pc \in LoopPcs
    /\ ~only_use_cache
    /\ cache_tier_ran

\* C16: after a cache tier without outcome the agent tier's budget is the
\* timeout less the time between the entry into _get_element and the start of
\* the agent loop (probe and cache tier), fixed at the hand-over and never
\* more than the timeout.
C16_BudgetAfterCacheTier ==
    /\ [](InAgentAfterCache =>
            /\ remaining_timeout = timeout - (loop_start_time - start_time)
            /\ remaining_timeout <= timeout)
    /\ [][(pc = "loop_ret" /\ only_use_cache /\ pc' = "loop_top")
            => /\ ~only_use_cache'
               /\ remaining_timeout' = timeout - (now - start_time)
               /\ now - start_time >= now - loop_start_time]_vars

\* the cache tier used up its 5 s on misses; the agent tier runs on what is
\* left of the 15 s
C16_Witness ==
    /\ InAgentAfterCache
    /\ ~impossible_seen
    /\ pc = "got_response"
    /\ nreq.cache >= 2
    /\ loop_start_time - start_time >= CACHE_TIMEOUT
    /\ 0 < remaining_timeout /\ remaining_timeout <= timeout - CACHE_TIMEOUT

\* C17: the cache tier runs exactly in the calls with use_cache true and a
\* true probe, always with only_use_cache = TRUE and a budget of 5 s; the
\* step that issues a request builds its snapshot and DTO anew, with a
\* screenshot exactly on the agent tier, use_cache = force_use_cache =
\* only_use_cache, and the caller's only_one.
C17_TierFlags ==
    /\ [](pc \in LoopPcs \cup {"returned"}
            => (cache_tier_ran <=> (use_cache /\ cache_available)))
    /\ []((pc \in LoopPcs /\ only_use_cache)
            => (cache_tier_ran /\ remaining_timeout = MsToTicks(5000)))
    /\ [][pc = "check_cache"
            => IF use_cache /\ cache_available
               THEN /\ pc' = "loop_top"
                    /\ only_use_cache'
                    /\ remaining_timeout' = MsToTicks(5000)
               ELSE ~only_use_cache' /\ ~cache_tier_ran']_vars
    /\ [][RequestIssued
            => dto' = [include_screenshot |-> ~only_use_cache,
                       use_cache |-> only_use_cache,
                       force_use_cache |-> only_use_cache,
                       only_one |-> only_one]]_vars

\* a get_elements call with a 0.3 s timeout in its cache tier: budget 5 s, no
\* screenshot, both cache flags set
C17_Witness ==
    /\ pc = "got_response"
    /\ only_use_cache
    /\ ~only_one
    /\ timeout = MsToTicks(300)
    /\ remaining_timeout = MsToTicks(5000)
    /\ dto = [include_screenshot |-> FALSE, use_cache |-> TRUE,
              force_use_cache |-> TRUE, only_one |-> FALSE]

\* the element handles inside a value
ElementsIn(value) ==
    {value.els[i] : i \in 1 .. Len(value.els)}
        \cup {value.fields[j].el : j \in 1 .. Len(value.fields)}

\* the selectors a resolution response carries
SelectorsIn(r) ==
    {r.selectors[i] : i \in 1 .. Len(r.selectors)}
        \cup UNION {{r.fields[k].selectors[i] : i \in 1 .. Len(r.fields[k].selectors)}
                    : k \in 1 .. Len(r.fields)}

\* C18: every element of a non-empty assembled outcome was created by a query
\* of the attempt in progress, made after that attempt's response for a
\* selector of that response and answered with a live match; this outcome, as
\* it is, becomes the loop's and then the call's return value, so a returned
\* element is never one of an earlier attempt or tier.
C18_ElementsAreFresh ==
    /\ []((pc = "assembled" /\ Truthy(response)) =>
            \A e \in ElementsIn(response) :
                /\ e.attempt = AttemptId
                /\ e.selector \in SelectorsIn(api_res)
                /\ \E q \in 1 .. Len(queries) :
                      queries[q].selector = e.selector /\ queries[q].found)
    /\ [][pc = "got_response" /\ pc' = "assemble"
            => queries' = <<>> /\ dendrite_elements' = <<>> /\ result' = <<>>]_vars
    /\ [][(pc = "assemble" /\ queries' # queries)
            => /\ Len(queries') = Len(queries) + 1
               /\ queries'[Len(queries')].selector \in SelectorsIn(api_res)
               /\ api_res' = api_res
               /\ nreq' = nreq]_vars
    /\ [][(pc = "assembled" /\ Truthy(response))
            => pc' = "loop_ret" /\ loop_res' = response]_vars
    /\ [][(pc = "loop_ret" /\ Truthy(loop_res))
            => pc' = "returned" /\ ret' = loop_res]_vars
    /\ []((pc = "returned" /\ Truthy(ret)) =>
            \A e \in ElementsIn(ret) : e.attempt = AttemptId)

\* the agent tier's third attempt found #b live after two attempts that did
\* not: the element returned is the one queried in the third attempt
C18_Witness ==
    /\ pc = "returned"
    /\ ~only_use_cache
    /\ nreq.agent = 3
    /\ cache_tier_ran
    /\ ret = OneElement([selector |-> "#b", index |-> 1,
                         attempt |-> [tier |-> "agent", n |-> 3]])

\* the sum of the first k scheduled intervals
RECURSIVE SumIntervals(_)
SumIntervals(k) == IF k = 0 THEN 0 ELSE SumIntervals(k - 1) + TIMEOUT_INTERVAL[k]

\* What the timing state of a call is when the call runs alone, as a
\* predicate of its frame: the elapsed time compared at the head of an
\* iteration is the call's own time since its own loop start; the budget is
\* 5 s on the cache tier and otherwise the call's own timeout less its own
\* time from entry to loop start; the schedule position is one past the
\* number of its own requests; a request was issued only below the budget
\* and no earlier than the intervals before it allow.
TimingStateIsOwn(f) ==
    LET tier == IF f.only_use_cache THEN "cache" ELSE "agent" IN
    /\ f.pc = "loop_top" =>
          /\ f.total_elapsed_time = f.now - f.loop_start_time
          /\ f.idx = f.nreq[tier] + 1
    /\ f.pc \in LoopPcs =>
          f.remaining_timeout =
             IF f.only_use_cache THEN CACHE_TIMEOUT
             ELSE f.timeout - (f.loop_start_time - f.start_time)
    /\ f.pc \in {"got_response", "assemble", "assembled", "backoff"} =>
          /\ f.idx = f.nreq[tier]
          /\ f.request_duration = f.now - f.request_start_time
          /\ f.request_start_time - f.loop_start_time < f.remaining_timeout
          /\ f.request_start_time - f.loop_start_time >= SumIntervals(f.idx - 1)

\* C19: with two calls interleaved at their suspension points, a step either
\* is a step of the running call and leaves the suspended call's frame as it
\* was, or exchanges the two frames and changes neither; and the timing state
\* of each call (start time, elapsed time, schedule position, budget) stays
\* what it is for a call running alone.
C19_TimingStatePerCall ==
    /\ [](TimingStateIsOwn(Self) /\ TimingStateIsOwn(peer))
    /\ [][peer' # peer => (peer' = Self /\ Self' = peer)]_vars

\* one call is asleep after the second miss of its cache tier, the other has
\* just got the answer to its first agent-tier request, at a different time
C19_Witness ==
    /\ peer.pc = "backoff"
    /\ peer.only_use_cache
    /\ peer.idx = 2
    /\ peer.now > 0
    /\ pc = "got_response"
    /\ ~only_use_cache
    /\ idx = 1
    /\ now # peer.now
    /\ remaining_timeout # peer.remaining_timeout

\* C20: an attempt whose response is a failure, or a success that assembles
\* to nothing, goes to the sleep with nothing in between, and the sleep leads
\* back to the head of the loop, after the sixth attempt as after the others:
\* a head of the loop past the first is never reached before the previous
\* interval has passed since the previous request began, the used-up schedule
\* returns None only 8 s or more after the sixth request began, and a run
\* that ends without outcome and not on 'impossible' ends at the head of the
\* loop right after a sleep (or, with no budget at all, before any attempt);
\* the cache tier then hands over to the agent tier at that same instant.
C20_SleepAfterEveryMiss ==
    /\ [][(pc = "got_response" /\ api_res.status = "failure")
            => (pc' = "backoff" /\ now' = now)]_vars
    /\ [][(pc = "got_response" /\ api_res.status = "success")
            => pc' = "assemble"]_vars
    /\ [][(pc = "assembled" /\ ~Truthy(response))
            => (pc' = "backoff" /\ now' = now /\ nreq' = nreq)]_vars
    /\ [][pc = "backoff"
            => /\ pc' = "loop_top"
               /\ now' = now + Max(0, TIMEOUT_INTERVAL[idx] - request_duration)
               /\ nreq' = nreq]_vars
    /\ []((pc = "loop_top" /\ idx > 1)
            => now - request_start_time >= TIMEOUT_INTERVAL[idx - 1])
    /\ [][(pc = "loop_top" /\ idx > Len(TIMEOUT_INTERVAL))
            => /\ pc' = "loop_ret" /\ loop_res' = None
               /\ now - request_start_time >= MsToTicks(8000)]_vars
    /\ [][(/\ pc' = "loop_ret" /\ pc # "loop_ret"
           /\ ~Truthy(loop_res')
           /\ ~(pc = "got_response" /\ api_res.status = "impossible"))
            => (pc = "loop_top" /\ (idx > 1 \/ remaining_timeout <= 0))]_vars
    /\ [][(pc = "loop_ret" /\ only_use_cache /\ pc' = "loop_top")
            => (now' = now /\ ~only_use_cache')]_vars

\* the agent tier made its six attempts, slept after each of them, the last
\* time for the 8 s interval, and then returned None
C20_Witness ==
    /\ pc = "loop_ret"
    /\ ~only_use_cache
    /\ loop_res = None
    /\ ~impossible_seen
    /\ nreq.agent = 6
    /\ now - loop_start_time = SumIntervals(6)
====
